---- MODULE Spec2Model ----
(***************************************************************************)
(* Model of the falling-block engine: the Board (src/models/board.rs), the *)
(* PieceInstance (src/views/piece_instance.rs) and the BoardInstance state *)
(* machine (src/views/board_instance.rs).  One action per arm of           *)
(* BoardInstance::update.  Time (f32 seconds in the code) is counted in    *)
(* whole units.  Option<T> is a sequence of length 0 (None) or 1 (Some).   *)
(***************************************************************************)
EXTENDS Integers, Sequences, FiniteSets

\* ---------------------------------------------------------------- bounds
Width == 4
Height == 4
GravityInterval == 2
LockDelay == 2
MaxDt == 2
MaxPieces == 2

\* ------------------------------------------------------------- constants
PieceTypeCount == 7

None == << >>
Some(v) == << v >>
IsSome(o) == Len(o) = 1
Unwrap(o) == o[1]

Pos(x, y) == [x |-> x, y |-> y]

MaxOf(S) == CHOOSE m \in S : \A n \in S : n <= m
MinOf(S) == CHOOSE m \in S : \A n \in S : m <= n

\* ------------------------------------------------- geometry catalog
\* Tetromino shapes about a pivot cell, index = PieceType::from_idx.
BaseCells(typ) ==
    CASE typ = 0 -> << <<-1, 0>>, <<0, 0>>, <<1, 0>>, <<2, 0>> >>
      [] typ = 1 -> << <<0, 0>>, <<1, 0>>, <<0, 1>>, <<1, 1>> >>
      [] typ = 2 -> << <<-1, 0>>, <<0, 0>>, <<1, 0>>, <<0, 1>> >>
      [] typ = 3 -> << <<-1, 0>>, <<0, 0>>, <<0, 1>>, <<1, 1>> >>
      [] typ = 4 -> << <<-1, 1>>, <<0, 1>>, <<0, 0>>, <<1, 0>> >>
      [] typ = 5 -> << <<-1, 1>>, <<-1, 0>>, <<0, 0>>, <<1, 0>> >>
      [] typ = 6 -> << <<1, 1>>, <<-1, 0>>, <<0, 0>>, <<1, 0>> >>

rotation_count(typ) ==
    CASE typ = 0 -> 2
      [] typ = 1 -> 1
      [] typ = 2 -> 4
      [] typ = 3 -> 2
      [] typ = 4 -> 2
      [] typ = 5 -> 4
      [] typ = 6 -> 4

RECURSIVE RotateCw(_, _)
RotateCw(c, k) == IF k = 0 THEN c ELSE RotateCw(<<c[2], 0 - c[1]>>, k - 1)

\* the four relative cell offsets of (typ, rot_idx)
get_rotation(typ, rot_idx) ==
    IF typ = 1 THEN BaseCells(typ)
    ELSE [i \in 1..4 |-> RotateCw(BaseCells(typ)[i], rot_idx)]

\* (min_x, max_x) relative extents of a rotation
minmax_x(typ, rot_idx) ==
    LET xs == {get_rotation(typ, rot_idx)[i][1] : i \in 1..4}
    IN  <<MinOf(xs), MaxOf(xs)>>

max_x(typ, rot_idx) == minmax_x(typ, rot_idx)[2]

max_y(typ, rot_idx) ==
    MaxOf({get_rotation(typ, rot_idx)[i][2] : i \in 1..4})

\* per column (from min_x to max_x) the lowest relative y occupied
skirt(typ, rot_idx) ==
    LET cells == get_rotation(typ, rot_idx)
        mm == minmax_x(typ, rot_idx)
    IN  [k \in 1..(mm[2] - mm[1] + 1) |->
            MinOf({cells[i][2] : i \in {j \in 1..4 : cells[j][1] = mm[1] + k - 1}})]

\* -------------------------------------------------------- PieceInstance
PieceInstance_new(typ, position) ==
    [typ |-> typ, rot_idx |-> 0, position |-> position]

cells(piece) == get_rotation(piece.typ, piece.rot_idx)

\* RotationDirection::Cw and ::Ccw
rotate(piece, direction) ==
    LET count == rotation_count(piece.typ)
        inx == IF direction = "Cw" THEN (piece.rot_idx + 1) % count
               ELSE (piece.rot_idx + count - 1) % count
    IN  [piece EXCEPT !.rot_idx = inx]

\* ---------------------------------------------------------------- Board
BoardState_new ==
    [grid |-> [i \in 0..(Width * Height - 1) |-> FALSE],
     row_score |-> [y \in 0..(Height - 1) |-> 0],
     col_score |-> [x \in 0..(Width - 1) |-> 0]]

idx(x, y) ==
    IF x < 0 \/ y < 0 \/ x >= Width \/ y >= Height THEN None
    ELSE Some(y * Width + x)

is_cell_filled(b, pos) ==
    IF IsSome(idx(pos.x, pos.y)) THEN b.grid[Unwrap(idx(pos.x, pos.y))] ELSE FALSE

mid_x == Width \div 2

col_score(b, col) ==
    IF col >= Width \/ col < 0 THEN None ELSE Some(b.col_score[col])

row_score(b, row) ==
    IF row >= Height \/ row < 0 THEN None ELSE Some(b.row_score[row])

\* result of the first cell (in catalog order) that is out of the grid or filled
try_place(b, piece, board_pos) ==
    LET cs == cells(piece)
        cell_pos(i) == Pos(board_pos.x + cs[i][1], board_pos.y + cs[i][2])
        oob(i) == ~IsSome(idx(cell_pos(i).x, cell_pos(i).y))
        bad == {i \in 1..4 : oob(i) \/ is_cell_filled(b, cell_pos(i))}
    IN  IF bad = {} THEN "PlaceOk"
        ELSE IF oob(MinOf(bad)) THEN "OutOfBounds"
        ELSE "PlaceBad"

\* mutant: the column's score is overwritten by every filled cell
update_col_score_unguarded(b, pos) ==
    [b EXCEPT !.col_score[pos.x] = pos.y + 1]

update_col_score(b, pos) ==
    IF pos.y >= b.col_score[pos.x]
    THEN [b EXCEPT !.col_score[pos.x] = pos.y + 1]
    ELSE b

\* mutant: the row's score is set to 1, not incremented
update_row_score_set(b, pos) ==
    [b EXCEPT !.row_score[pos.y] = 1]

update_row_score(b, pos) ==
    [b EXCEPT !.row_score[pos.y] = @ + 1]

\* mutant: the row's score is compared with the width before it is updated
fill_cell_stale_score(b, pos) ==
    IF IsSome(idx(pos.x, pos.y))
    THEN LET b1 == [b EXCEPT !.grid[Unwrap(idx(pos.x, pos.y))] = TRUE]
             b2 == update_col_score(b1, pos)
             b3 == update_row_score(b2, pos)
         IN  [board |-> b3,
              result |-> IF b2.row_score[pos.y] = Width THEN "RowFilled" ELSE "PlaceOk"]
    ELSE [board |-> b, result |-> "OutOfBounds"]

\* the board after the call and the PlaceResult
fill_cell(b, pos) ==
    IF IsSome(idx(pos.x, pos.y))
    THEN LET b1 == [b EXCEPT !.grid[Unwrap(idx(pos.x, pos.y))] = TRUE]
             b2 == update_col_score(b1, pos)
             b3 == update_row_score(b2, pos)
         IN  [board |-> b3,
              result |-> IF b3.row_score[pos.y] = Width THEN "RowFilled" ELSE "PlaceOk"]
    ELSE [board |-> b, result |-> "OutOfBounds"]

RECURSIVE CommitCells(_, _, _, _)
CommitCells(b, piece, i, rows) ==
    IF i > 4 THEN [board |-> b, rows |-> rows]
    ELSE LET c == cells(piece)[i]
             cell_pos == Pos(piece.position.x + c[1], piece.position.y + c[2])
             r == fill_cell(b, cell_pos)
         IN  CommitCells(r.board, piece, i + 1,
                 IF r.result = "RowFilled" THEN Append(rows, cell_pos.y) ELSE rows)

\* the board after the commit and Option<Vec<isize>> of filled rows
Board_commit_piece(b, piece) ==
    LET r == CommitCells(b, piece, 1, << >>)
    IN  [board |-> r.board,
         filled_rows |-> IF r.rows # << >> THEN Some(r.rows) ELSE None]

RECURSIVE DropScan(_, _, _, _)
DropScan(b, piece, x_offset, max_required_y) ==
    LET mm == minmax_x(piece.typ, piece.rot_idx)
        board_x == piece.position.x + mm[1] + x_offset
        skirt_val == skirt(piece.typ, piece.rot_idx)[x_offset + 1]
        cscore == IF IsSome(col_score(b, board_x)) THEN Unwrap(col_score(b, board_x)) ELSE 0
        required_y == IF cscore = 0 THEN 0 - skirt_val ELSE cscore + 1 - skirt_val
    IN  IF x_offset > mm[2] - mm[1] THEN max_required_y
        ELSE IF board_x < 0 \/ board_x >= Width
             THEN DropScan(b, piece, x_offset + 1, max_required_y)
        ELSE DropScan(b, piece, x_offset + 1,
                 IF required_y > max_required_y THEN required_y ELSE max_required_y)

get_drop_location(b, piece) ==
    LET max_required_y == DropScan(b, piece, 0, 0)
        final_y == IF max_required_y > 0 THEN max_required_y ELSE 0
    IN  Pos(piece.position.x, final_y)

\* -------------------------------------------------------- BoardInstance
PlayerInputs == {"L", "R", "HardDrop", "Rotate", "Pause"}
Inputs == {None} \cup {Some(i) : i \in PlayerInputs}
Dts == 0..MaxDt
PieceTypes == 0..(PieceTypeCount - 1)

VARIABLES board, game_state, prev_game_state, pause_state, active_piece,
          gravity_timer, lock_timer

vars == <<board, game_state, prev_game_state, pause_state, active_piece,
          gravity_timer, lock_timer>>

BoardInstance_new ==
    [board |-> BoardState_new,
     game_state |-> "Ready",
     prev_game_state |-> None,
     pause_state |-> None,
     active_piece |-> None,
     gravity_timer |-> 0,
     lock_timer |-> 0]

\* the BoardInstance as one value
Self ==
    [board |-> board,
     game_state |-> game_state,
     prev_game_state |-> prev_game_state,
     pause_state |-> pause_state,
     active_piece |-> active_piece,
     gravity_timer |-> gravity_timer,
     lock_timer |-> lock_timer]

spawn_pos(typ) ==
    Pos(mid_x - (max_x(typ, 0) \div 2), Height - max_y(typ, 0) - 1)

\* mutant: a spawn onto filled cells is accepted
spawn_new_piece_overlap(self, piece_type) ==
    LET new_piece == PieceInstance_new(piece_type, spawn_pos(piece_type))
        can_place == try_place(self.board, new_piece, spawn_pos(piece_type))
                         \in {"PlaceOk", "RowFilled", "PlaceBad"}
    IN  [self |-> IF can_place THEN [self EXCEPT !.active_piece = Some(new_piece)]
                  ELSE self,
         ok |-> can_place]

\* piece_type is the rng's draw
spawn_new_piece(self, piece_type) ==
    LET new_piece == PieceInstance_new(piece_type, spawn_pos(piece_type))
        can_place == try_place(self.board, new_piece, spawn_pos(piece_type))
                         \in {"PlaceOk", "RowFilled"}
    IN  [self |-> IF can_place THEN [self EXCEPT !.active_piece = Some(new_piece)]
                  ELSE self,
         ok |-> can_place]

\* mutant: the piece is read, not taken, from active_piece
commit_piece_keeps_piece(self) ==
    IF IsSome(self.active_piece)
    THEN LET r == Board_commit_piece(self.board, Unwrap(self.active_piece))
         IN  [self |-> [self EXCEPT !.board = r.board],
              filled_rows |-> r.filled_rows]
    ELSE [self |-> self, filled_rows |-> None]

commit_piece(self) ==
    IF IsSome(self.active_piece)
    THEN LET r == Board_commit_piece(self.board, Unwrap(self.active_piece))
         IN  [self |-> [self EXCEPT !.active_piece = None, !.board = r.board],
              filled_rows |-> r.filled_rows]
    ELSE [self |-> self, filled_rows |-> None]

\* only prints the rows
clear_lines(self, rows) == self

apply_gravity(self) ==
    IF ~IsSome(self.active_piece) THEN [self |-> self, ok |-> FALSE]
    ELSE LET piece == Unwrap(self.active_piece)
             next_pos == Pos(piece.position.x, piece.position.y - 1)
             can_place == try_place(self.board, piece, next_pos)
                              \in {"PlaceOk", "RowFilled"}
         IN  [self |-> IF can_place
                       THEN [self EXCEPT !.active_piece[1].position = next_pos]
                       ELSE self,
              ok |-> can_place]

\* mutant: the move is made without the placement test
move_active_piece_unchecked(self, new_pos) ==
    IF ~IsSome(self.active_piece) THEN [self |-> self, ok |-> FALSE]
    ELSE [self |-> [self EXCEPT !.active_piece[1].position = new_pos],
          ok |-> TRUE]

move_active_piece(self, new_pos) ==
    IF ~IsSome(self.active_piece) THEN [self |-> self, ok |-> FALSE]
    ELSE LET piece == Unwrap(self.active_piece)
             can_place == try_place(self.board, piece, new_pos)
                              \in {"PlaceOk", "RowFilled"}
         IN  [self |-> IF can_place
                       THEN [self EXCEPT !.active_piece[1].position = new_pos]
                       ELSE self,
              ok |-> can_place]

\* mutant: the drop moves the piece and leaves the phase alone
hard_drop_keeps_phase(self) ==
    IF IsSome(self.active_piece)
    THEN move_active_piece(self,
             get_drop_location(self.board, Unwrap(self.active_piece))).self
    ELSE self

hard_drop(self) ==
    IF IsSome(self.active_piece)
    THEN LET drop_pos == get_drop_location(self.board, Unwrap(self.active_piece))
             m == move_active_piece(self, drop_pos)
         IN  IF m.ok THEN [m.self EXCEPT !.game_state = "Locking"] ELSE m.self
    ELSE self

\* mutant: a rejected rotation is not reverted
rotate_active_piece_no_revert(self) ==
    IF IsSome(self.active_piece)
    THEN [self EXCEPT !.active_piece = Some(rotate(Unwrap(self.active_piece), "Cw"))]
    ELSE self

rotate_active_piece(self) ==
    IF IsSome(self.active_piece)
    THEN LET old == Unwrap(self.active_piece)
             piece == rotate(old, "Cw")
         IN  IF try_place(self.board, piece, piece.position) = "PlaceOk"
             THEN [self EXCEPT !.active_piece = Some(piece)]
             ELSE [self EXCEPT !.active_piece = Some([piece EXCEPT !.rot_idx = old.rot_idx])]
    ELSE self

handle_pause(self) ==
    IF self.game_state = "Paused"
    THEN LET s1 == [self EXCEPT
                       !.game_state = IF IsSome(self.prev_game_state)
                                      THEN Unwrap(self.prev_game_state) ELSE "Ready",
                       !.prev_game_state = None]
         IN  IF IsSome(self.pause_state)
             THEN [s1 EXCEPT !.gravity_timer = Unwrap(self.pause_state).gravity_timer,
                             !.lock_timer = Unwrap(self.pause_state).lock_timer,
                             !.pause_state = None]
             ELSE s1
    ELSE [self EXCEPT
             !.prev_game_state = Some(self.game_state),
             !.pause_state = Some([gravity_timer |-> self.gravity_timer,
                                   lock_timer |-> self.lock_timer]),
             !.game_state = "Paused"]

handle_input(self, input) ==
    CASE input = "L" ->
            IF IsSome(self.active_piece)
            THEN LET p == Unwrap(self.active_piece).position
                 IN  move_active_piece(self, Pos(p.x - 1, p.y)).self
            ELSE self
      [] input = "R" ->
            IF IsSome(self.active_piece)
            THEN LET p == Unwrap(self.active_piece).position
                 IN  move_active_piece(self, Pos(p.x + 1, p.y)).self
            ELSE self
      [] input = "Rotate" -> rotate_active_piece(self)
      [] input = "HardDrop" -> hard_drop(self)
      [] input = "Pause" -> handle_pause(self)

\* `if let Some(input) = input { self.handle_input(input) }`
apply_input(self, input) ==
    IF IsSome(input) THEN handle_input(self, Unwrap(input)) ELSE self

\* ------------------------------------------- the arms of update's match
update_Ready(self, piece_type) ==
    LET r == spawn_new_piece(self, piece_type)
    IN  [r.self EXCEPT !.game_state = IF r.ok THEN "Falling" ELSE "GameOver"]

\* mutant: a piece that cannot fall is committed at once
gravity_result_commits(g) ==
    IF ~g.ok
    THEN [commit_piece(g.self).self EXCEPT !.game_state = "Ready"]
    ELSE g.self

\* `if !self.apply_gravity() { self.game_state = Locking }`
gravity_result(g) ==
    IF ~g.ok THEN [g.self EXCEPT !.game_state = "Locking"] ELSE g.self

\* mutant: the step waits until the timer has passed the interval
gravity_step_strict(self) ==
    IF self.gravity_timer > GravityInterval
    THEN gravity_result(apply_gravity([self EXCEPT !.gravity_timer = 0]))
    ELSE self

\* the gravity step once gravity_timer has been advanced
gravity_step(self) ==
    IF self.gravity_timer >= GravityInterval
    THEN gravity_result(apply_gravity([self EXCEPT !.gravity_timer = 0]))
    ELSE self

add_gravity_time(self, dt) == [self EXCEPT !.gravity_timer = @ + dt]

update_Falling(self, dt, input) ==
    gravity_step(add_gravity_time(apply_input(self, input), dt))

\* the re-check whether the piece can fall after the input
unlock_step(self) ==
    IF IsSome(self.active_piece)
    THEN LET piece == Unwrap(self.active_piece)
             next_pos == Pos(piece.position.x, piece.position.y - 1)
         IN  IF try_place(self.board, piece, next_pos) = "PlaceOk"
             THEN [self EXCEPT !.active_piece[1].position = next_pos,
                               !.lock_timer = 0,
                               !.gravity_timer = 0,
                               !.game_state = "Falling"]
             ELSE self
    ELSE self

\* `if let Some(filled_rows) = self.commit_piece() { self.clear_lines(..) }`,
\* then Ready
commit_result(c) ==
    [(IF IsSome(c.filled_rows)
      THEN clear_lines(c.self, Unwrap(c.filled_rows))
      ELSE c.self) EXCEPT !.game_state = "Ready"]

\* the commit once lock_timer has been advanced
lock_step(self) ==
    IF self.lock_timer >= LockDelay
    THEN commit_result(commit_piece([self EXCEPT !.lock_timer = 0]))
    ELSE self

\* mutant: the lock timer does not advance
add_lock_time_frozen(self, dt) == self

add_lock_time(self, dt) == [self EXCEPT !.lock_timer = @ + dt]

update_Locking(self, dt, input) ==
    lock_step(add_lock_time(unlock_step(apply_input(self, input)), dt))

\* mutant: the GameOver arm applies the input like the Paused arm
update_GameOver_input(self, input) == apply_input(self, input)

update_GameOver(self, input) == self

update_Paused(self, input) == apply_input(self, input)

update(self, dt, input, piece_type) ==
    CASE self.game_state = "Ready" -> update_Ready(self, piece_type)
      [] self.game_state = "Falling" -> update_Falling(self, dt, input)
      [] self.game_state = "Locking" -> update_Locking(self, dt, input)
      [] self.game_state = "GameOver" -> update_GameOver(self, input)
      [] self.game_state = "Paused" -> update_Paused(self, input)

\* ----------------------------------------------------- the state machine
\* One action per arm of update's match on game_state; the guard is the arm's
\* pattern and the body is the arm.
Set(s) ==
    /\ board' = s.board
    /\ game_state' = s.game_state
    /\ prev_game_state' = s.prev_game_state
    /\ pause_state' = s.pause_state
    /\ active_piece' = s.active_piece
    /\ gravity_timer' = s.gravity_timer
    /\ lock_timer' = s.lock_timer

FilledCount(b) == Cardinality({i \in DOMAIN b.grid : b.grid[i]})

Init ==
    /\ board = BoardInstance_new.board
    /\ game_state = BoardInstance_new.game_state
    /\ prev_game_state = BoardInstance_new.prev_game_state
    /\ pause_state = BoardInstance_new.pause_state
    /\ active_piece = BoardInstance_new.active_piece
    /\ gravity_timer = BoardInstance_new.gravity_timer
    /\ lock_timer = BoardInstance_new.lock_timer

TickReady ==
    /\ game_state = "Ready"
    /\ FilledCount(board) < 4 * MaxPieces
    /\ \E piece_type \in PieceTypes : Set(update_Ready(Self, piece_type))

TickFalling ==
    /\ game_state = "Falling"
    /\ \E dt \in Dts, input \in Inputs : Set(update_Falling(Self, dt, input))

TickLocking ==
    /\ game_state = "Locking"
    /\ \E dt \in Dts, input \in Inputs : Set(update_Locking(Self, dt, input))

TickGameOver ==
    /\ game_state = "GameOver"
    /\ \E dt \in Dts, input \in Inputs : Set(update_GameOver(Self, input))

TickPaused ==
    /\ game_state = "Paused"
    /\ \E dt \in Dts, input \in Inputs : Set(update_Paused(Self, input))

Next == TickReady \/ TickFalling \/ TickLocking \/ TickGameOver \/ TickPaused

Spec == Init /\ [][Next]_vars

\* ================================================================ claims
ActivePiece == Unwrap(active_piece)

HasPiece == IsSome(active_piece)

\* the piece can be placed one row lower
CanFall(b, piece) ==
    try_place(b, piece, Pos(piece.position.x, piece.position.y - 1)) = "PlaceOk"

RowFull(b, y) == \A x \in 0..(Width - 1) : b.grid[y * Width + x]

\* apply_gravity repeated until it is rejected
RECURSIVE IteratedGravity(_)
IteratedGravity(self) ==
    IF apply_gravity(self).ok THEN IteratedGravity(apply_gravity(self).self) ELSE self

SpawnPiece(typ, rot_idx) ==
    [typ |-> typ, rot_idx |-> rot_idx, position |-> spawn_pos(typ)]

SpawnLegal(b, typ, rot_idx) ==
    try_place(b, SpawnPiece(typ, rot_idx), spawn_pos(typ)) = "PlaceOk"

\* C1: for every shape and rotation legally placed at its spawn position on a
\* reachable board, get_drop_location returns the position that repeated
\* one-row gravity steps reach (same x, same final y).
C1_DropEqualsIteratedGravity ==
    \A typ \in PieceTypes : \A rot_idx \in 0..(rotation_count(typ) - 1) :
        SpawnLegal(board, typ, rot_idx) =>
            get_drop_location(board, SpawnPiece(typ, rot_idx))
                = Unwrap(IteratedGravity(
                      [Self EXCEPT !.active_piece = Some(SpawnPiece(typ, rot_idx))]
                  ).active_piece).position

\* C2: whenever a piece is active, try_place of it at get_drop_location's
\* position is PlaceOk, so hard_drop never takes its failure branch.
C2_HardDropPlaceOk ==
    HasPiece =>
        try_place(board, ActivePiece, get_drop_location(board, ActivePiece)) = "PlaceOk"

DropOk == try_place(board, ActivePiece, get_drop_location(board, ActivePiece)) = "PlaceOk"

\* the active piece after a HardDrop input
Dropped ==
    IF DropOk
    THEN [ActivePiece EXCEPT !.position = get_drop_location(board, ActivePiece)]
    ELSE ActivePiece

C4_NoFullRowAfterCommit ==
    (game_state = "Ready" /\ ~HasPiece) =>
        \A y \in 0..(Height - 1) : ~RowFull(board, y) /\ board.row_score[y] < Width

\* C5: from Falling or Locking, two consecutive Pause ticks with dt = 0 end
\* with phase, gravity_timer and lock_timer as before the first of them.
C5_PauseRoundTrip ==
    game_state \in {"Falling", "Locking"} =>
        LET s == update(update(Self, 0, Some("Pause"), 0), 0, Some("Pause"), 0)
        IN  /\ s.game_state = game_state
            /\ s.gravity_timer = gravity_timer
            /\ s.lock_timer = lock_timer

\* C6: a Pause tick from Falling or Locking ends, for every dt, in Paused with
\* the saved phase and the timer snapshot those of the start of the tick, and
\* without a gravity step, an unlock step or a commit.
C6_EnterPause ==
    game_state \in {"Falling", "Locking"} =>
        \A dt \in Dts :
            LET s == update(Self, dt, Some("Pause"), 0)
            IN  /\ s.game_state = "Paused"
                /\ s.prev_game_state = Some(game_state)
                /\ s.pause_state = Some([gravity_timer |-> gravity_timer,
                                         lock_timer |-> lock_timer])
                /\ s.active_piece = active_piece
                /\ s.board = board

\* C7: while Paused, a tick with no input or with L, R, Rotate or HardDrop
\* changes nothing, for every dt.
C7_PausedFrame ==
    game_state = "Paused" =>
        \A dt \in Dts : \A input \in Inputs \ {Some("Pause")} :
            update(Self, dt, input, 0) = Self

\* the draws a tick can consume: the rng is read in the Ready arm only
Draws == IF game_state = "Ready" THEN PieceTypes ELSE {0}

\* C8: a tick leads into GameOver exactly when it starts in Ready and the
\* drawn piece, at rotation 0 and the spawn position, has a cell outside the
\* grid or on a filled cell; a legal spawn ends the tick in Falling with that
\* piece active at the spawn position.
C8_GameOverOnlyByFailedSpawn ==
    IF game_state = "Ready"
    THEN \A dt \in Dts : \A input \in Inputs : \A piece_type \in PieceTypes :
             LET s == update(Self, dt, input, piece_type)
             IN  IF SpawnLegal(board, piece_type, 0)
                 THEN /\ s.game_state = "Falling"
                      /\ s.active_piece = Some(SpawnPiece(piece_type, 0))
                 ELSE s.game_state = "GameOver"
    ELSE game_state # "GameOver" =>
             \A dt \in Dts : \A input \in Inputs : \A piece_type \in Draws :
                 update(Self, dt, input, piece_type).game_state # "GameOver"

\* a Ready state with filled cells where one draw tops out and another spawns
C8_Witness ==
    /\ game_state = "Ready"
    /\ \E t \in PieceTypes :
           /\ ~SpawnLegal(board, t, 0)
           /\ update(Self, 0, None, t).game_state = "GameOver"
    /\ \E t \in PieceTypes :
           /\ SpawnLegal(board, t, 0)
           /\ update(Self, 0, None, t).game_state = "Falling"

\* C9: in GameOver no piece is active and every tick, whatever dt, input and
\* draw, leaves the whole BoardInstance as it is.
C9_GameOverTerminal ==
    game_state = "GameOver" =>
        /\ ~HasPiece
        /\ \A dt \in Dts : \A input \in Inputs : \A piece_type \in PieceTypes :
               update(Self, dt, input, piece_type) = Self

\* GameOver reached after a pause was taken earlier in the game
C9_Witness ==
    /\ game_state = "GameOver"
    /\ IsSome(prev_game_state)
    /\ update(Self, MaxDt, Some("Pause"), 0) = Self

\* C10: a piece is active exactly when the phase is Falling or Locking, or
\* Paused with a saved phase of Falling or Locking.
C10_ActivePieceIffPhase ==
    HasPiece <=>
        \/ game_state \in {"Falling", "Locking"}
        \/ /\ game_state = "Paused"
           /\ IsSome(prev_game_state)
           /\ Unwrap(prev_game_state) \in {"Falling", "Locking"}

\* Ready after a commit, with the piece gone and a stale saved phase
C10_Witness ==
    /\ game_state = "Ready"
    /\ FilledCount(board) > 0
    /\ ~HasPiece
    /\ prev_game_state = Some("Locking")

\* the state after the input of a tick has been applied
AfterInput(input) == apply_input(Self, input)

\* C11: in a Locking tick in which, after the input, the piece can be placed
\* one row lower, the tick ends with the piece exactly one row lower,
\* gravity_timer = 0, lock_timer = 0, phase Falling and nothing committed,
\* for every dt.
C11_UnlockEndsFalling ==
    (game_state = "Locking" /\ HasPiece) =>
        \A dt \in Dts : \A input \in Inputs :
            LET p == Unwrap(AfterInput(input).active_piece)
                s == update(Self, dt, input, 0)
            IN  CanFall(board, p) =>
                    /\ s.active_piece =
                           Some([p EXCEPT !.position = Pos(p.position.x, p.position.y - 1)])
                    /\ s.gravity_timer = 0
                    /\ s.lock_timer = 0
                    /\ s.game_state = "Falling"
                    /\ s.board = board

\* the absolute cells of a piece at a candidate position
TargetCells(piece, pos) ==
    {Pos(pos.x + cells(piece)[i][1], pos.y + cells(piece)[i][2]) : i \in 1..4}

InGrid(c) == c.x >= 0 /\ c.x < Width /\ c.y >= 0 /\ c.y < Height

Candidates == {Pos(x, y) : x \in (0 - 2)..(Width + 1), y \in (0 - 2)..(Height + 1)}

\* C12: try_place returns OutOfBounds whenever a target cell lies outside the
\* grid, even if another target cell is inside and filled, and PlaceBad only
\* when all four target cells are inside the grid and one of them is filled.
C12_OutOfBoundsFirst ==
    \A t \in PieceTypes : \A r \in 0..(rotation_count(t) - 1) : \A pos \in Candidates :
        LET piece == [typ |-> t, rot_idx |-> r, position |-> pos]
            res == try_place(board, piece, pos)
            tc == TargetCells(piece, pos)
        IN  /\ (\E c \in tc : ~InGrid(c)) => res = "OutOfBounds"
            /\ res = "PlaceBad" =>
                   /\ \A c \in tc : InGrid(c)
                   /\ \E c \in tc : board.grid[c.y * Width + c.x]

\* the number of filled cells of row y
RowCount(b, y) == Cardinality({x \in 0..(Width - 1) : b.grid[y * Width + x]})

\* C13: for every row y, row_score[y] is the number of filled cells of row y;
\* so it lies in 0..width and is width exactly when the row is full.
C13_RowScoreCounts ==
    \A y \in 0..(Height - 1) :
        /\ board.row_score[y] = RowCount(board, y)
        /\ board.row_score[y] >= 0 /\ board.row_score[y] <= Width
        /\ (board.row_score[y] = Width) <=> RowFull(board, y)

\* a board with a full row and a partly filled row
C13_Witness ==
    /\ \E y \in 0..(Height - 1) : RowFull(board, y) /\ board.row_score[y] = Width
    /\ \E y \in 0..(Height - 1) : board.row_score[y] > 0 /\ board.row_score[y] < Width

\* one past the y of the highest filled cell of column x, 0 for an empty column
ColTop(b, x) ==
    IF \E y \in 0..(Height - 1) : b.grid[y * Width + x]
    THEN 1 + MaxOf({y \in 0..(Height - 1) : b.grid[y * Width + x]})
    ELSE 0

\* C14: for every column x, col_score[x] is 0 for an empty column and
\* otherwise 1 plus the y of its highest filled cell; across a commit no
\* col_score[x] decreases.
C14_ColScoreIsTop ==
    /\ \A x \in 0..(Width - 1) : board.col_score[x] = ColTop(board, x)
    /\ HasPiece =>
           \A x \in 0..(Width - 1) :
               commit_piece(Self).self.board.col_score[x] >= board.col_score[x]

\* a piece about to be committed into a column whose top is higher than one of
\* the piece's cells in that column, and a board with an empty column
C14_Witness ==
    /\ game_state = "Locking"
    /\ HasPiece
    /\ \E x \in 0..(Width - 1) : board.col_score[x] = 0
    /\ \E c \in TargetCells(ActivePiece, ActivePiece.position) :
           InGrid(c) /\ c.y + 1 < commit_piece(Self).self.board.col_score[c.x]

\* the rows Board::commit_piece returns, as a sequence
CommittedRows(b, piece) ==
    IF IsSome(Board_commit_piece(b, piece).filled_rows)
    THEN Unwrap(Board_commit_piece(b, piece).filled_rows)
    ELSE << >>

\* the rows a commit completes
CompletedRows(b, piece) ==
    {y \in 0..(Height - 1) :
        ~RowFull(b, y) /\ RowFull(Board_commit_piece(b, piece).board, y)}

\* C15: the rows commit_piece returns for a piece on empty cells inside the
\* grid are exactly the rows it completes, each once, and it returns None
\* exactly when it completes no row.
C15_CommitReturnsCompletedRows ==
    (HasPiece /\ try_place(board, ActivePiece, ActivePiece.position) = "PlaceOk") =>
        LET rows == CommittedRows(board, ActivePiece)
        IN  /\ {rows[i] : i \in 1..Len(rows)} = CompletedRows(board, ActivePiece)
            /\ Len(rows) = Cardinality(CompletedRows(board, ActivePiece))
            /\ (Board_commit_piece(board, ActivePiece).filled_rows = None)
                   <=> (CompletedRows(board, ActivePiece) = {})

\* a piece whose commit completes a row that other pieces' cells already
\* partly filled
C15_Witness ==
    /\ HasPiece
    /\ try_place(board, ActivePiece, ActivePiece.position) = "PlaceOk"
    /\ \E y \in CompletedRows(board, ActivePiece) :
           /\ RowCount(board, y) > 0
           /\ Board_commit_piece(board, ActivePiece).filled_rows # None

\* the active piece turned to its next clockwise rotation index
Rotated == rotate(ActivePiece, "Cw")

\* C16: a Rotate input whose rotated placement at the same position is not
\* legal leaves the rotation index as it was; every Rotate input leaves the
\* position unchanged and the rotation index inside 0..rotation_count - 1.
C16_RotateRevert ==
    HasPiece =>
        LET p == Unwrap(handle_input(Self, "Rotate").active_piece)
        IN  /\ try_place(board, Rotated, ActivePiece.position) # "PlaceOk"
                   => p.rot_idx = ActivePiece.rot_idx
            /\ p.position = ActivePiece.position
            /\ p.rot_idx >= 0 /\ p.rot_idx < rotation_count(p.typ)

\* a piece with several rotations whose next rotation hits a filled cell, and
\* which the Rotate input leaves as it is
C16_Witness ==
    /\ HasPiece
    /\ rotation_count(ActivePiece.typ) > 1
    /\ try_place(board, Rotated, ActivePiece.position) = "PlaceBad"
    /\ handle_input(Self, "Rotate").active_piece = active_piece

\* the lock timer a Locking tick compares with lock_delay
LockTime(dt, input) ==
    add_lock_time(unlock_step(AfterInput(input)), dt).lock_timer

\* C17: the grid, row_score and col_score change only in a tick that commits
\* the active piece, a Locking tick whose lock_timer reaches lock_delay; every
\* other tick leaves all three unchanged.
C17_BoardChangesOnlyByCommit ==
    \A dt \in Dts : \A input \in Inputs : \A pt \in Draws :
        LET s == update(Self, dt, input, pt)
        IN  s.board # board =>
                /\ game_state = "Locking"
                /\ HasPiece
                /\ LockTime(dt, input) >= LockDelay
                /\ s.active_piece = None
                /\ s.game_state = "Ready"

\* a Locking state from which one tick commits and another, with a left or
\* right move that succeeds, does not
C17_Witness ==
    /\ game_state = "Locking"
    /\ HasPiece
    /\ \E dt \in Dts : update(Self, dt, None, 0).board # board
    /\ \E input \in {Some("L"), Some("R")} :
           /\ update(Self, 0, input, 0).active_piece # active_piece
           /\ update(Self, 0, input, 0).board = board

\* the active piece one row lower
OneRowLower == [ActivePiece EXCEPT !.position = Pos(@.x, @.y - 1)]

\* C18: in a Falling tick with no player action, if gravity_timer + dt is
\* below gravity_interval only gravity_timer changes, growing by dt; otherwise
\* gravity_timer becomes 0 and the piece moves down exactly one row and the
\* phase stays Falling if it can be placed one row lower, else the piece stays
\* and the phase becomes Locking; lock_timer and the board are unchanged.
C18_FallingTick ==
    (game_state = "Falling" /\ HasPiece) =>
        \A dt \in Dts :
            LET s == update(Self, dt, None, 0)
            IN  IF gravity_timer + dt < GravityInterval
                THEN s = [Self EXCEPT !.gravity_timer = gravity_timer + dt]
                ELSE IF CanFall(board, ActivePiece)
                THEN s = [Self EXCEPT !.gravity_timer = 0,
                                      !.active_piece = Some(OneRowLower)]
                ELSE s = [Self EXCEPT !.gravity_timer = 0,
                                      !.game_state = "Locking"]

\* a Falling piece one time unit short of a gravity step it cannot take, above
\* a filled cell
C18_Witness ==
    /\ game_state = "Falling"
    /\ HasPiece
    /\ gravity_timer = GravityInterval - 1
    /\ ~CanFall(board, ActivePiece)
    /\ FilledCount(board) > 0
    /\ update(Self, 1, None, 0).game_state = "Locking"

\* C19: whenever an active piece is present, its four cells are inside the
\* grid and none of them is filled, so a commit fills only empty cells.
C19_ActivePieceLegal ==
    HasPiece =>
        /\ \A c \in TargetCells(ActivePiece, ActivePiece.position) :
               InGrid(c) /\ ~board.grid[c.y * Width + c.x]
        /\ try_place(board, ActivePiece, ActivePiece.position) = "PlaceOk"
        /\ FilledCount(commit_piece(Self).self.board) = FilledCount(board) + 4

\* a piece lying on a filled cell with a filled cell beside it
C19_Witness ==
    /\ HasPiece
    /\ \E c \in TargetCells(ActivePiece, ActivePiece.position) :
           c.y > 0 /\ board.grid[(c.y - 1) * Width + c.x]
    /\ \E c \in TargetCells(ActivePiece, ActivePiece.position) :
           c.x > 0 /\ board.grid[c.y * Width + (c.x - 1)]

\* C20: in every tick that commits the active piece, for any dt and any
\* player action, the piece at its committed position cannot be placed one row
\* lower.
C20_CommitOnlyGrounded ==
    (game_state = "Locking" /\ HasPiece) =>
        \A dt \in Dts : \A input \in Inputs :
            LET a == unlock_step(AfterInput(input))
            IN  update(Self, dt, input, 0).board # board =>
                    ~CanFall(board, Unwrap(a.active_piece))

\* C21: while a piece is active its y never increases from one tick to the
\* next, whatever the tick's dt and player action.
C21_YNeverIncreases ==
    HasPiece =>
        \A dt \in Dts : \A input \in Inputs :
            LET s == update(Self, dt, input, 0)
            IN  IsSome(s.active_piece) =>
                    Unwrap(s.active_piece).position.y <= ActivePiece.position.y

\* ------------------------------------------------ ticks with no player action
\* the strictly positive dts
IdleDts == 1..MaxDt

IdleReady ==
    /\ game_state = "Ready"
    /\ \E piece_type \in PieceTypes :
           \E s \in {update_Ready(Self, piece_type)} : Set(s)

IdleFalling ==
    /\ game_state = "Falling"
    /\ \E dt \in IdleDts : \E s \in {update_Falling(Self, dt, None)} : Set(s)

IdleLocking ==
    /\ game_state = "Locking"
    /\ \E dt \in IdleDts : \E s \in {update_Locking(Self, dt, None)} : Set(s)

IdleGameOver ==
    /\ game_state = "GameOver"
    /\ \E dt \in IdleDts : \E s \in {update_GameOver(Self, None)} : Set(s)

IdleNext == IdleReady \/ IdleFalling \/ IdleLocking \/ IdleGameOver

\* every tick with no player action and a positive dt changes the state until
\* the game is over
IdleTickActs ==
    game_state # "GameOver" =>
        \A dt \in IdleDts : \A pt \in Draws : update(Self, dt, None, pt) # Self

\* the caller keeps calling update. The fairness is WF_vars(IdleNext) written
\* without ENABLED: a tick is a step that changes the state exactly when the
\* game is not over (IdleTickActs, and the GameOver arm changes nothing), so
\* ENABLED <<IdleNext>>_vars is game_state # "GameOver".
IdleSpec ==
    /\ Init
    /\ [][IdleNext]_vars
    /\ ([]<>(game_state = "GameOver") \/ []<><<IdleNext>>_vars)

====
